---------------------------- MODULE Spec2Model ----------------------------
(***************************************************************************)
(* Model of stock-producer/producer.py: the paginated fetcher              *)
(* (get_all_stock_price_data), the publisher (send_to_kafka), the          *)
(* connection factory (create_kafka_producer) and the scheduler loop with  *)
(* its teardown (main).  One thread of control; pc is its position.        *)
(***************************************************************************)
EXTENDS Integers, Sequences, FiniteSets, TLC

VARIABLES
    env,        \* the environment read at import: STOCK_API_KEY, API_ENDPOINT
    clock,      \* the system clock, in days since Epoch
    pc,         \* position of the single thread
    producer,   \* main's `producer`: "unset", "None" or "KafkaProducer"
    today,      \* main's `today` (a date record) or NoDate
    cycle,      \* number of loop iterations started
    cycleKind,  \* "none", "skip" (weekend branch) or "trading"
    page_no,    \* the fetcher's page_no
    collected_data, \* the fetcher's accumulator
    all_data,   \* main's `all_data`
    idx,        \* position of `for item in all_data`
    sent,       \* what the last send_to_kafka call returned, or "none"
    reqLog,     \* page requests issued in the current iteration
    respLog,    \* what each of them came back with: the kind ("items",
                \* "empty", "error") and the records served
    pubLog,     \* messages handed to producer.send in the current iteration
    sleeps,     \* the time.sleep calls of the iteration: their lengths, in
                \* tenths of a second
    teardown,   \* the producer's flush/close calls, in order
    exitCause,  \* how the loop was left: "none", "interrupt", "exception"
    exitAt,     \* the position the loop was left from, or "none"
    ever        \* the kinds of external effects the process has had so far

vars == << env, clock, pc, producer, today, cycle, cycleKind, page_no,
           collected_data, all_data, idx, sent, reqLog, respLog, pubLog,
           sleeps, teardown, exitCause, exitAt, ever >>

----------------------------------------------------------------------------
(* Bounds of the exploration *)

MaxDay == 6        \* the clock runs over Epoch .. Epoch + MaxDay
MaxCycles == 2     \* loop iterations explored
MaxPages == 2      \* non-empty pages the source serves in one fetch
MaxPageLen == 2    \* records on one page (at most num_of_rows in the code)

----------------------------------------------------------------------------
(* Configuration, lines 22-29 *)

num_of_rows == 100

\* line 29, the default (one day), and line 73, in tenths of a second
COLLECTION_INTERVAL_SECONDS == 86400

PageDelay == 3

Interval == COLLECTION_INTERVAL_SECONDS * 10

\* The raw values of STOCK_API_KEY that are explored (strings as sequences
\* of characters): unset, '' , "k" and "'" (the last three with the quotes).
RawKeys == { << >>, <<"'", "'">>, <<"\"", "k", "\"">>, <<"\"", "'", "\"">> }

Endpoints == { "getStockPriceInfo", "getPreferredStockPriceInfo" }

RECURSIVE LStrip(_, _)
LStrip(s, c) == IF s # << >> /\ Head(s) = c THEN LStrip(Tail(s), c) ELSE s

RECURSIVE RStrip(_, _)
RStrip(s, c) ==
    IF s # << >> /\ s[Len(s)] = c THEN RStrip(SubSeq(s, 1, Len(s) - 1), c) ELSE s

\* str.strip(c) for a single character c
Strip(s, c) == RStrip(LStrip(s, c), c)

API_KEY == Strip(Strip(env.STOCK_API_KEY, "'"), "\"")

API_ENDPOINT == env.API_ENDPOINT

API_BASE_URL == "https://apis.data.go.kr/1160100/service/GetStockSecuritiesInfoService"

----------------------------------------------------------------------------
(* Dates: datetime.today(), weekday(), strftime *)

NoDate == [year |-> 0, month |-> 0, day |-> 0]

\* The clock's day 0 is 2025-04-07; the explored days stay inside April 2025.
DateOf(d) == [year |-> 2025, month |-> 4, day |-> 7 + d]

\* date.weekday(): Monday is 0, Sunday is 6 (Sakamoto's day-of-week, which
\* counts from Sunday, shifted by 6).
MonthTable == <<0, 3, 2, 5, 0, 3, 5, 1, 4, 6, 2, 4>>

weekday(dt) ==
    LET y == IF dt.month < 3 THEN dt.year - 1 ELSE dt.year
        sun0 == (y + (y \div 4) - (y \div 100) + (y \div 400)
                   + MonthTable[dt.month] + dt.day) % 7
    IN  (sun0 + 6) % 7

DigitChar == <<"0", "1", "2", "3", "4", "5", "6", "7", "8", "9">>

RECURSIVE Digits(_, _)
\* n written with exactly w decimal digits (zero padded)
Digits(n, w) == IF w = 0 THEN << >>
                ELSE Digits(n \div 10, w - 1) \o << DigitChar[(n % 10) + 1] >>

\* strftime('%Y-%m-%d')
strftime(dt) == Digits(dt.year, 4) \o <<"-">> \o Digits(dt.month, 2)
                  \o <<"-">> \o Digits(dt.day, 2)

\* the YYYYMMDD form the source expects for basDt
Yyyymmdd(dt) == Digits(dt.year, 4) \o Digits(dt.month, 2) \o Digits(dt.day, 2)

\* line 38: the reference date the fetcher sends
basDt == <<"2", "0", "2", "5", "0", "4", "0", "7">>

----------------------------------------------------------------------------
(* The external source: the records of page p of the fetch of cycle c.  A   *)
(* record is opaque to the program; it is named by where it came from.     *)

PageItems(c, p, n) == [i \in 1..n |-> [cycle |-> c, page |-> p, pos |-> i]]

PcLoop == {"loop", "fetch", "request", "response", "publish", "confirm",
           "sleep", "sleeping"}

Init ==
    /\ env \in [STOCK_API_KEY : RawKeys, API_ENDPOINT : Endpoints]
    /\ clock \in 0..MaxDay
    /\ pc = "start"
    /\ producer = "unset"
    /\ today = NoDate
    /\ cycle = 0
    /\ cycleKind = "none"
    /\ page_no = 0
    /\ collected_data = << >>
    /\ all_data = << >>
    /\ idx = 0
    /\ sent = "none"
    /\ reqLog = << >>
    /\ respLog = << >>
    /\ pubLog = << >>
    /\ sleeps = << >>
    /\ teardown = << >>
    /\ exitCause = "none"
    /\ exitAt = "none"
    /\ ever = {}

----------------------------------------------------------------------------
(* Startup, lines 128-135 *)

\* a check of the raw environment value, quotes and all
CheckApiKeyRaw ==
    /\ pc = "start"
    /\ pc' = IF env.STOCK_API_KEY = << >> THEN "exit" ELSE "create"
    /\ UNCHANGED << env, clock, producer, today, cycle, cycleKind, page_no,
                    collected_data, all_data, idx, sent, reqLog, respLog,
                    pubLog, sleeps, teardown, exitCause, exitAt, ever >>

\* lines 128-130: the credential check
CheckApiKey ==
    /\ pc = "start"
    /\ pc' = IF API_KEY = << >> THEN "exit" ELSE "create"
    /\ UNCHANGED << env, clock, producer, today, cycle, cycleKind, page_no,
                    collected_data, all_data, idx, sent, reqLog, respLog,
                    pubLog, sleeps, teardown, exitCause, exitAt, ever >>

\* a main that does not look at what create_kafka_producer returned
create_kafka_producer_unchecked(ok) ==
    /\ pc = "create"
    /\ producer' = IF ok THEN "KafkaProducer" ELSE "None"
    /\ ever' = IF ok THEN ever \cup {"connect"} ELSE ever
    /\ pc' = "loop"
    /\ UNCHANGED << env, clock, today, cycle, cycleKind, page_no,
                    collected_data, all_data, idx, sent, reqLog, respLog,
                    pubLog, sleeps, teardown, exitCause, exitAt >>

\* create_kafka_producer: the constructor either connects, or raises and the
\* function returns None; lines 133-135 then leave main.
create_kafka_producer(ok) ==
    /\ pc = "create"
    /\ producer' = IF ok THEN "KafkaProducer" ELSE "None"
    /\ ever' = IF ok THEN ever \cup {"connect"} ELSE ever
    /\ pc' = IF ok THEN "loop" ELSE "exit"
    /\ UNCHANGED << env, clock, today, cycle, cycleKind, page_no,
                    collected_data, all_data, idx, sent, reqLog, respLog,
                    pubLog, sleeps, teardown, exitCause, exitAt >>

CreateProducer == \E ok \in BOOLEAN : create_kafka_producer(ok)

----------------------------------------------------------------------------
(* The scheduler loop, lines 139-166 *)

\* a weekend test that lets Saturday through
LoopTopSundayOnly ==
    /\ pc = "loop"
    /\ cycle < MaxCycles
    /\ cycle' = cycle + 1
    /\ today' = DateOf(clock)
    /\ ever' = ever \cup {"weekday"}
    /\ cycleKind' = IF weekday(today') > 5 THEN "skip" ELSE "trading"
    /\ pc' = IF weekday(today') > 5 THEN "sleep" ELSE "fetch"
    /\ reqLog' = << >>
    /\ respLog' = << >>
    /\ pubLog' = << >>
    /\ sleeps' = << >>
    /\ UNCHANGED << env, clock, producer, page_no, collected_data, all_data,
                    idx, sent, teardown, exitCause, exitAt >>

\* lines 140-149: evaluate the date; weekends go straight to the sleep
LoopTop ==
    /\ pc = "loop"
    /\ cycle < MaxCycles
    /\ cycle' = cycle + 1
    /\ today' = DateOf(clock)
    /\ ever' = ever \cup {"weekday"}
    /\ cycleKind' = IF weekday(today') >= 5 THEN "skip" ELSE "trading"
    /\ pc' = IF weekday(today') >= 5 THEN "sleep" ELSE "fetch"
    /\ reqLog' = << >>
    /\ respLog' = << >>
    /\ pubLog' = << >>
    /\ sleeps' = << >>
    /\ UNCHANGED << env, clock, producer, page_no, collected_data, all_data,
                    idx, sent, teardown, exitCause, exitAt >>

----------------------------------------------------------------------------
(* get_all_stock_price_data, lines 32-75 *)

api_url == << API_BASE_URL, API_ENDPOINT >>

\* lines 45-51
Params(p) == [ serviceKey |-> API_KEY, resultType |-> "json",
               numOfRows |-> num_of_rows, pageNo |-> p, basDt |-> basDt ]

\* a fetcher that puts each new page in front of the earlier ones
ExtendPrepends(acc, items) == items \o acc

\* line 66: collected_data.extend(items)
Extend(acc, items) == acc \o items

\* a fetcher that steps over a page
NextPageSkips(p) == p + 2

\* line 72
NextPage(p) == p + 1

\* a fetcher whose accumulator outlives the call
FetchBeginKeepsData ==
    /\ pc = "fetch"
    /\ page_no' = 1
    /\ pc' = "request"
    /\ UNCHANGED << env, clock, producer, today, cycle, cycleKind,
                    collected_data, all_data, idx, sent, reqLog, respLog,
                    pubLog, sleeps, teardown, exitCause, exitAt, ever >>

\* lines 33-42: the call; with no key the function returns [] at once
FetchBegin ==
    /\ pc = "fetch"
    /\ IF API_KEY = << >>
       THEN /\ all_data' = << >>
            /\ idx' = 1
            /\ pc' = "publish"
            /\ UNCHANGED << page_no, collected_data >>
       ELSE /\ page_no' = 1
            /\ collected_data' = << >>
            /\ pc' = "request"
            /\ UNCHANGED << all_data, idx >>
    /\ UNCHANGED << env, clock, producer, today, cycle, cycleKind, sent,
                    reqLog, respLog, pubLog, sleeps, teardown, exitCause, exitAt, ever >>

\* lines 45-55: build the parameters and send the GET
IssueRequest ==
    /\ pc = "request"
    /\ reqLog' = Append(reqLog, [url |-> api_url, params |-> Params(page_no)])
    /\ ever' = ever \cup {"request"}
    /\ pc' = "response"
    /\ UNCHANGED << env, clock, producer, today, cycle, cycleKind, page_no,
                    collected_data, all_data, idx, sent, respLog, pubLog,
                    sleeps, teardown, exitCause, exitAt >>

\* a fetcher with a page limit: it returns after its second page
PageItemsCapped(n) ==
    /\ pc = "response"
    /\ page_no <= MaxPages
    /\ collected_data' = Extend(collected_data,
           PageItems(cycle, reqLog[Len(reqLog)].params.pageNo, n))
    /\ respLog' = Append(respLog, [kind |-> "items",
           items |-> PageItems(cycle, reqLog[Len(reqLog)].params.pageNo, n)])
    /\ page_no' = NextPage(page_no)
    /\ sleeps' = Append(sleeps, PageDelay)
    /\ ever' = ever \cup {"sleep"}
    /\ all_data' = IF page_no >= 2 THEN collected_data' ELSE all_data
    /\ idx' = IF page_no >= 2 THEN 1 ELSE idx
    /\ pc' = IF page_no >= 2 THEN "publish" ELSE "request"
    /\ UNCHANGED << env, clock, producer, today, cycle, cycleKind, sent,
                    reqLog, pubLog, teardown, exitCause, exitAt >>

\* a fetcher that hands each page to the publish loop as it arrives
PageItemsStreamed(n) ==
    /\ pc = "response"
    /\ page_no <= MaxPages
    /\ collected_data' = Extend(collected_data,
           PageItems(cycle, reqLog[Len(reqLog)].params.pageNo, n))
    /\ respLog' = Append(respLog, [kind |-> "items",
           items |-> PageItems(cycle, reqLog[Len(reqLog)].params.pageNo, n)])
    /\ page_no' = NextPage(page_no)
    /\ all_data' = collected_data'
    /\ idx' = Len(collected_data) + 1
    /\ pc' = "publish"
    /\ UNCHANGED << env, clock, producer, today, cycle, cycleKind, sent,
                    reqLog, pubLog, sleeps, teardown, exitCause, exitAt,
                    ever >>

\* lines 56-66, 72-73: the page requested came back with n >= 1 records;
\* they are appended, the page number goes up and the short delay is slept
PageItemsReceived(n) ==
    /\ pc = "response"
    /\ page_no <= MaxPages
    /\ collected_data' = Extend(collected_data,
           PageItems(cycle, reqLog[Len(reqLog)].params.pageNo, n))
    /\ respLog' = Append(respLog, [kind |-> "items",
           items |-> PageItems(cycle, reqLog[Len(reqLog)].params.pageNo, n)])
    /\ page_no' = NextPage(page_no)
    /\ sleeps' = Append(sleeps, PageDelay)
    /\ ever' = ever \cup {"sleep"}
    /\ pc' = "request"
    /\ UNCHANGED << env, clock, producer, today, cycle, cycleKind, all_data,
                    idx, sent, reqLog, pubLog, teardown, exitCause, exitAt >>

\* `break`, line 75 (return collected_data) and line 151 (all_data = ...)
FetchReturn(kind) ==
    /\ respLog' = Append(respLog, [kind |-> kind, items |-> << >>])
    /\ all_data' = collected_data
    /\ idx' = 1
    /\ pc' = "publish"
    /\ UNCHANGED << env, clock, producer, today, cycle, cycleKind, page_no,
                    collected_data, sent, reqLog, pubLog, sleeps, teardown,
                    exitCause, exitAt, ever >>

\* lines 60-63: no items on the page
PageEmpty ==
    /\ pc = "response"
    /\ FetchReturn("empty")

\* a fetcher whose handler logs the failure and goes on to the next page
PageErrorContinues ==
    /\ pc = "response"
    /\ respLog' = Append(respLog, [kind |-> "error", items |-> << >>])
    /\ page_no' = NextPage(page_no)
    /\ pc' = IF page_no <= MaxPages THEN "request" ELSE "publish"
    /\ all_data' = collected_data
    /\ idx' = 1
    /\ UNCHANGED << env, clock, producer, today, cycle, cycleKind,
                    collected_data, sent, reqLog, pubLog, sleeps, teardown,
                    exitCause, exitAt, ever >>

\* a fetcher without the handler: the failure unwinds into main
PageErrorPropagates ==
    /\ pc = "response"
    /\ exitCause' = "exception"
    /\ exitAt' = pc
    /\ pc' = "finally"
    /\ UNCHANGED << env, clock, producer, today, cycle, cycleKind, page_no,
                    collected_data, all_data, idx, sent, reqLog, respLog,
                    pubLog, sleeps, teardown, ever >>

\* lines 68-70: requests.get, raise_for_status, json() or the item lookup raised
PageError ==
    /\ pc = "response"
    /\ FetchReturn("error")

----------------------------------------------------------------------------
(* The publish loop, lines 152-163, and send_to_kafka, lines 98-114 *)

\* lines 154-160
Message(item) == [ source |-> "stock_price_api",
                   api_endpoint |-> API_ENDPOINT,
                   search_date |-> strftime(today),
                   retrieved_at |-> clock,
                   data |-> item ]

\* a loop that walks the result from its end
PublishNextFromEnd ==
    /\ pc = "publish"
    /\ idx <= Len(all_data)
    /\ pubLog' = Append(pubLog, Message(all_data[Len(all_data) - idx + 1]))
    /\ ever' = ever \cup {"publish"}
    /\ pc' = "confirm"
    /\ UNCHANGED << env, clock, producer, today, cycle, cycleKind, page_no,
                    collected_data, all_data, idx, sent, reqLog, respLog,
                    sleeps, teardown, exitCause, exitAt >>

\* line 153 picks the next item; lines 154-161 and 100-105 build the message
\* and hand it to producer.send (a message is never empty, so line 100 passes)
PublishNext ==
    /\ pc = "publish"
    /\ idx <= Len(all_data)
    /\ pubLog' = Append(pubLog, Message(all_data[idx]))
    /\ ever' = ever \cup {"publish"}
    /\ pc' = "confirm"
    /\ UNCHANGED << env, clock, producer, today, cycle, cycleKind, page_no,
                    collected_data, all_data, idx, sent, reqLog, respLog,
                    sleeps, teardown, exitCause, exitAt >>

\* a publisher loop that offers a failed record again
send_to_kafka_retried(ok) ==
    /\ pc = "confirm"
    /\ sent' = IF ok THEN "True" ELSE "False"
    /\ idx' = IF ok THEN idx + 1 ELSE idx
    /\ pc' = "publish"
    /\ UNCHANGED << env, clock, producer, today, cycle, cycleKind, page_no,
                    collected_data, all_data, reqLog, respLog, pubLog,
                    sleeps, teardown, exitCause, exitAt, ever >>

\* lines 106-114: future.get returned the metadata, or raised; the result is
\* returned to main, which drops it and moves to the next item
send_to_kafka_returns(ok) ==
    /\ pc = "confirm"
    /\ sent' = IF ok THEN "True" ELSE "False"
    /\ idx' = idx + 1
    /\ pc' = "publish"
    /\ UNCHANGED << env, clock, producer, today, cycle, cycleKind, page_no,
                    collected_data, all_data, reqLog, respLog, pubLog,
                    sleeps, teardown, exitCause, exitAt, ever >>

Confirm == \E ok \in BOOLEAN : send_to_kafka_returns(ok)

\* a loop that may stop one item early
PublishDoneEarly ==
    /\ pc = "publish"
    /\ idx >= Len(all_data)
    /\ pc' = "sleep"
    /\ UNCHANGED << env, clock, producer, today, cycle, cycleKind, page_no,
                    collected_data, all_data, idx, sent, reqLog, respLog,
                    pubLog, sleeps, teardown, exitCause, exitAt, ever >>

\* the for loop is exhausted (or line 152 found all_data empty)
PublishDone ==
    /\ pc = "publish"
    /\ idx > Len(all_data)
    /\ pc' = "sleep"
    /\ UNCHANGED << env, clock, producer, today, cycle, cycleKind, page_no,
                    collected_data, all_data, idx, sent, reqLog, respLog,
                    pubLog, sleeps, teardown, exitCause, exitAt, ever >>

----------------------------------------------------------------------------
(* The sleeps, lines 145-146 and 165-166 *)

BeginSleep ==
    /\ sleeps' = Append(sleeps, Interval)
    /\ ever' = ever \cup {"sleep"}
    /\ pc' = "sleeping"
    /\ UNCHANGED << env, clock, producer, today, cycle, cycleKind, page_no,
                    collected_data, all_data, idx, sent, reqLog, respLog,
                    pubLog, teardown, exitCause, exitAt >>

\* line 145
SkipSleep ==
    /\ pc = "sleep"
    /\ cycleKind = "skip"
    /\ BeginSleep

\* line 166
CycleSleep ==
    /\ pc = "sleep"
    /\ cycleKind = "trading"
    /\ BeginSleep

\* the sleep returns, `continue` / the end of the loop body; the interval is
\* at most a day here, so the date is the same or the next
Wake ==
    /\ pc = "sleeping"
    /\ \E d \in {clock, clock + 1} \cap (0..MaxDay) : clock' = d
    /\ pc' = "loop"
    /\ UNCHANGED << env, producer, today, cycle, cycleKind, page_no,
                    collected_data, all_data, idx, sent, reqLog, respLog,
                    pubLog, sleeps, teardown, exitCause, exitAt, ever >>

----------------------------------------------------------------------------
(* Leaving the loop, lines 168-171, and the teardown, lines 172-178 *)

\* an interrupt that is only noted, the iteration going on
LeaveLoopDeferred(cause) ==
    /\ exitCause' = cause
    /\ exitAt' = pc
    /\ UNCHANGED << env, clock, pc, producer, today, cycle, cycleKind,
                    page_no, collected_data, all_data, idx, sent, reqLog,
                    respLog, pubLog, sleeps, teardown, ever >>

LeaveLoop(cause) ==
    /\ exitCause' = cause
    /\ exitAt' = pc
    /\ pc' = "finally"
    /\ UNCHANGED << env, clock, producer, today, cycle, cycleKind, page_no,
                    collected_data, all_data, idx, sent, reqLog, respLog,
                    pubLog, sleeps, teardown, ever >>

\* KeyboardInterrupt is not an Exception: neither the fetcher's nor the
\* publisher's handler catches it, so it unwinds from anywhere in the loop
Interrupt ==
    /\ pc \in PcLoop
    /\ LeaveLoop("interrupt")

\* an Exception raised outside the fetcher's and the publisher's try blocks
\* (time.sleep with a negative interval, for one)
UnhandledException ==
    /\ pc \in {"loop", "fetch", "request", "publish", "sleep"}
    /\ LeaveLoop("exception")

\* lines 173-175: with a producer, producer.flush(timeout=10) returns, or
\* raises (the timeout expired, or a second interrupt) and the exception
\* leaves main; without one the block is skipped
Flush(ok) ==
    /\ pc = "finally"
    /\ IF producer = "KafkaProducer"
       THEN /\ teardown' = Append(teardown, "flush")
            /\ pc' = IF ok THEN "close" ELSE "exit"
       ELSE /\ teardown' = teardown
            /\ pc' = "exit"
    /\ UNCHANGED << env, clock, producer, today, cycle, cycleKind, page_no,
                    collected_data, all_data, idx, sent, reqLog, respLog,
                    pubLog, sleeps, exitCause, exitAt, ever >>

FlushProducer == \E ok \in BOOLEAN : Flush(ok)

\* a close after which the loop is entered again
CloseProducerAndResume ==
    /\ pc = "close"
    /\ teardown' = Append(teardown, "close")
    /\ pc' = "loop"
    /\ UNCHANGED << env, clock, producer, today, cycle, cycleKind, page_no,
                    collected_data, all_data, idx, sent, reqLog, respLog,
                    pubLog, sleeps, exitCause, exitAt, ever >>

\* line 176: producer.close(timeout=10)
CloseProducer ==
    /\ pc = "close"
    /\ teardown' = Append(teardown, "close")
    /\ pc' = "exit"
    /\ UNCHANGED << env, clock, producer, today, cycle, cycleKind, page_no,
                    collected_data, all_data, idx, sent, reqLog, respLog,
                    pubLog, sleeps, exitCause, exitAt, ever >>

----------------------------------------------------------------------------

Next ==
    \/ CheckApiKey
    \/ CreateProducer
    \/ LoopTop
    \/ FetchBegin
    \/ IssueRequest
    \/ \E n \in 1..MaxPageLen : PageItemsReceived(n)
    \/ PageEmpty
    \/ PageError
    \/ PublishNext
    \/ Confirm
    \/ PublishDone
    \/ SkipSleep
    \/ CycleSleep
    \/ Wake
    \/ Interrupt
    \/ UnhandledException
    \/ FlushProducer
    \/ CloseProducer

Spec == Init /\ [][Next]_vars

\* The thread's own steps.  Every blocking call is bounded (the GET by
\* timeout=20, future.get by 15, flush and close by 10, the sleeps by their
\* length), so a step that can be taken is taken; an interrupt or an
\* unexpected exception may or may not come.
Step ==
    \/ CheckApiKey
    \/ CreateProducer
    \/ LoopTop
    \/ FetchBegin
    \/ IssueRequest
    \/ \E n \in 1..MaxPageLen : PageItemsReceived(n)
    \/ PageEmpty
    \/ PageError
    \/ PublishNext
    \/ Confirm
    \/ PublishDone
    \/ SkipSleep
    \/ CycleSleep
    \/ Wake
    \/ FlushProducer
    \/ CloseProducer

\* one configuration, started on Friday 2025-04-11
InitFair ==
    /\ Init
    /\ env = [STOCK_API_KEY |-> <<"\"", "k", "\"">>,
              API_ENDPOINT |-> "getStockPriceInfo"]
    /\ clock = 4

FairSpec == InitFair /\ [][Next]_vars /\ WF_vars(Step)

TypeOK ==
    /\ pc \in PcLoop \cup {"start", "create", "finally", "close", "exit"}
    /\ producer \in {"unset", "None", "KafkaProducer"}
    /\ cycle \in 0..MaxCycles
    /\ Len(respLog) <= Len(reqLog)
    /\ Len(reqLog) <= Len(respLog) + 1

----------------------------------------------------------------------------
(* Properties *)

RECURSIVE Flatten(_)
\* the concatenation of a sequence of sequences
Flatten(ss) == IF ss = << >> THEN << >> ELSE Head(ss) \o Flatten(Tail(ss))

\* the records served by the first k responses of the current fetch
Served(k) == Flatten([i \in 1..k |-> respLog[i].items])

\* C1: when the source served n non-empty pages and then an empty page, the
\* fetch call has issued exactly n+1 page requests and has returned the
\* concatenation of the n pages' records, in the order they were requested.
C1_EmptyPageEndsFetch ==
    (/\ respLog # << >>
     /\ respLog[Len(respLog)].kind = "empty"
     /\ \A i \in 1..(Len(respLog) - 1) : respLog[i].kind = "items")
    => /\ Len(reqLog) = Len(respLog)
       /\ all_data = Served(Len(respLog) - 1)

C1_Witness ==
    /\ pc = "publish"
    /\ Len(respLog) = 3
    /\ respLog[3].kind = "empty"
    /\ Len(all_data) = 3
    /\ all_data[1].page = 1
    /\ all_data[3].page = 2

\* C2: when the request for page k fails, the fetch call returns exactly the
\* records of pages 1..k-1 (none when k = 1), page k is the last page
\* requested in that call, and the failure does not leave the loop: main
\* goes on with the result.
C2_FailedPageTruncates ==
    \A k \in 1..Len(respLog) :
        respLog[k].kind = "error"
        => /\ k = Len(respLog)
           /\ Len(reqLog) = k
           /\ all_data = Served(k - 1)
           /\ exitAt # "response"
           /\ pc # "request" /\ pc # "response"

C2_Witness ==
    /\ pc = "publish"
    /\ Len(respLog) = 2
    /\ respLog[1].kind = "items"
    /\ respLog[2].kind = "error"
    /\ Len(all_data) = 2
    /\ exitCause = "none"

\* the sleeps of the configured interval begun in the current iteration
IntervalSleeps == SelectSeq(sleeps, LAMBDA d : d = Interval)

\* the trading-day iteration has got to its sleep
AtCycleSleep == cycleKind = "trading" /\ (pc = "sleep" \/ IntervalSleeps # << >>)

\* C3: when a trading-day iteration reaches its sleep with a fetch result of m
\* records, exactly m messages were handed to the broker, each record of the
\* result is the data of exactly one of them, and none when m = 0.
C3_OnePublishPerRecord ==
    AtCycleSleep
    => /\ Len(pubLog) = Len(all_data)
       /\ \A i \in 1..Len(all_data) :
              Cardinality({j \in 1..Len(pubLog) : pubLog[j].data = all_data[i]}) = 1
       /\ \A j \in 1..Len(pubLog) :
              \E i \in 1..Len(all_data) : pubLog[j].data = all_data[i]

C3_Witness ==
    /\ cycleKind = "trading"
    /\ pc = "sleeping"
    /\ Len(all_data) = 3
    /\ Len(pubLog) = 3

\* a 'YYYY-MM-DD' string without its dashes
Undash(str) == SelectSeq(str, LAMBDA ch : ch # "-")

\* C4: every page request of an iteration carries, as its reference date
\* (basDt, in YYYYMMDD form), the date the scheduler evaluated at the start
\* of that iteration.
C4_RequestsCarryToday ==
    \A i \in 1..Len(reqLog) : reqLog[i].params.basDt = Yyyymmdd(today)

\* C5: every published envelope's search_date is the reference date sent in
\* the page requests of the same iteration, and its api_endpoint is the
\* configured endpoint, which is also the endpoint the requests went to.
C5_EnvelopeMatchesRequests ==
    \A j \in 1..Len(pubLog) :
        /\ pubLog[j].api_endpoint = API_ENDPOINT
        /\ \A i \in 1..Len(reqLog) :
               /\ reqLog[i].url[2] = API_ENDPOINT
               /\ Undash(pubLog[j].search_date) = reqLog[i].params.basDt

\* C6: in an iteration whose date is a Saturday or a Sunday no page request
\* is issued and no message is published; the only sleep is one sleep of the
\* configured interval, and once it is over the thread is back at the top
\* of the loop.
C6_WeekendSkips ==
    (today # NoDate /\ weekday(today) \in {5, 6})
    => /\ reqLog = << >>
       /\ pubLog = << >>
       /\ pc \in {"sleep", "sleeping", "loop", "finally", "close", "exit"}
       /\ sleeps \in {<< >>, << Interval >>}
       /\ pc = "sleep" => sleeps = << >>
       /\ pc \in {"sleeping", "loop"} => sleeps = << Interval >>
       /\ exitAt \in {"none", "sleep", "sleeping", "loop"}

C6_Witness ==
    /\ today = [year |-> 2025, month |-> 4, day |-> 12]
    /\ pc = "loop"
    /\ sleeps = << Interval >>
    /\ exitCause = "none"

\* C7: once the loop has been left (by interrupt or by exception) and main
\* has ended, flush was invoked exactly once and close exactly once, flush
\* first.
C7_FlushThenCloseOnce ==
    (pc = "exit" /\ exitCause # "none") => teardown = <<"flush", "close">>

\* C8: once a connection has been created and main has ended after leaving
\* the loop, close has been invoked, whatever flush did.
C8_CloseOnEveryExit ==
    (pc = "exit" /\ producer = "KafkaProducer")
    => \E i \in 1..Len(teardown) : teardown[i] = "close"

\* C9: with an empty credential (API_KEY, the environment value without its
\* quotes) the process never creates a connection, never issues a page
\* request and never publishes: it goes from the check straight to its end.
C9_NoKeyNoStart ==
    API_KEY = << >>
    => /\ pc \in {"start", "exit"}
       /\ producer = "unset"
       /\ ever = {}
       /\ reqLog = << >>
       /\ pubLog = << >>

C9_Witness ==
    /\ env.STOCK_API_KEY = <<"'", "'">>
    /\ pc = "exit"

\* C10: when the connection could not be created (create_kafka_producer
\* returned None) the process ends without running the loop: no weekday was
\* evaluated, no page requested, nothing published and nothing slept.
C10_NoConnectionNoLoop ==
    producer = "None"
    => /\ pc = "exit"
       /\ ever = {}
       /\ cycle = 0
       /\ today = NoDate
       /\ reqLog = << >> /\ pubLog = << >> /\ sleeps = << >>

C10_Witness ==
    /\ producer = "None"
    /\ pc = "exit"
    /\ API_KEY # << >>

\* C11: a publish that fails returns False to main, and main moves on: while
\* the batch is being published the number of messages handed to the broker
\* is the number of items taken so far (one per item, failed or not), no
\* record is handed over twice, and at the sleep the number of attempts is
\* the batch size.
C11_FailedPublishMovesOn ==
    cycleKind = "trading"
    => /\ pc = "publish" => Len(pubLog) = idx - 1
       /\ pc = "confirm" => Len(pubLog) = idx
       /\ (pc = "publish" /\ idx > 1) => sent \in {"True", "False"}
       /\ \A i, j \in 1..Len(pubLog) :
              pubLog[i].data = pubLog[j].data => i = j
       /\ AtCycleSleep => Len(pubLog) = Len(all_data)

C11_Witness ==
    /\ cycle = 1
    /\ pc = "confirm"
    /\ idx = 2
    /\ sent = "False"
    /\ Len(pubLog) = 2
    /\ Len(all_data) = 3

\* the thread is inside a trading-day iteration, before its sleep
InCycleWork ==
    /\ cycleKind = "trading"
    /\ pc \in {"fetch", "request", "response", "publish", "confirm", "sleep"}

\* C12: a failed page request or a failed publish never leaves the loop, and
\* unless an interrupt or an unexpected exception comes, every trading-day
\* iteration, failures or not, gets to its end-of-cycle sleep, and every
\* sleep ends back at the top of the loop.
C12_FailuresDoNotStopTheLoop ==
    /\ [](exitCause = "exception" => exitAt \notin {"response", "confirm"})
    /\ (InCycleWork ~> (pc = "sleeping" \/ exitCause # "none"))
    /\ (pc = "sleeping" ~> (pc = "loop" \/ exitCause # "none"))

C12_Witness ==
    /\ pc = "loop"
    /\ cycleKind = "trading"
    /\ respLog # << >>
    /\ respLog[Len(respLog)].kind = "error"
    /\ Len(pubLog) = 2
    /\ sent = "False"
    /\ IntervalSleeps = << Interval >>
    /\ exitCause = "none"

\* a page request has been sent and has neither been answered nor failed
RequestInFlight == Len(reqLog) > Len(respLog)

\* the loop was left during a publish-confirmation wait
PublishAbandoned == exitAt = "confirm"

\* C13, as claimed: flush is not invoked while a page request or a publish is
\* still in progress, and once the loop has been left no page request and no
\* publish call is made.
C13_TeardownWaitsForInFlight ==
    /\ teardown # << >> => (~RequestInFlight /\ ~PublishAbandoned)
    /\ exitCause # "none" => pc \in {"finally", "close", "exit"}

\* C13, amended: an interrupt is not deferred.  It unwinds the iteration from
\* where the thread is, a page request or a confirmation wait included; that
\* request is never answered and that publish never returns to main; the
\* thread goes straight to the teardown, and from then on no page request
\* and no publish call is made.
C13_InterruptUnwindsAtOnce ==
    /\ [](/\ exitCause # "none" => pc \in {"finally", "close", "exit"}
          /\ exitAt = "response" => RequestInFlight
          /\ exitAt = "confirm" => (Len(pubLog) >= 1 /\ idx <= Len(all_data)))
    /\ [][exitCause # "none" => (reqLog' = reqLog /\ pubLog' = pubLog
                                  /\ respLog' = respLog /\ idx' = idx)]_vars

C13_Witness ==
    /\ exitCause = "interrupt"
    /\ exitAt = "response"
    /\ RequestInFlight
    /\ Len(reqLog) = 2
    /\ teardown = <<"flush">>

\* C14: within one fetch the i-th page request has pageNo i (the first is 1,
\* each later one is one more than the one before, none is repeated or left
\* out) and all requests have the same numOfRows; the requests of a new
\* iteration start at 1 again.
C14_PagesCountUpFromOne ==
    \A i \in 1..Len(reqLog) :
        /\ reqLog[i].params.pageNo = i
        /\ reqLog[i].params.numOfRows = reqLog[1].params.numOfRows

C14_Witness ==
    /\ cycle = 2
    /\ all_data # << >>
    /\ all_data[Len(all_data)].cycle = 1
    /\ all_data[Len(all_data)].page = 2
    /\ Len(reqLog) = 3
    /\ reqLog[1].params.pageNo = 1

\* C15: nothing is carried from one iteration to the next: a fetch starts
\* with an empty accumulator, the accumulator only ever holds records of the
\* current iteration, and every record published in an iteration is one that
\* the source served in that same iteration.
C15_NoDataAcrossCycles ==
    /\ (pc = "request" /\ reqLog = << >>) => collected_data = << >>
    /\ pc \in {"request", "response"}
       => \A i \in 1..Len(collected_data) : collected_data[i].cycle = cycle
    /\ \A j \in 1..Len(pubLog) :
           /\ pubLog[j].data.cycle = cycle
           /\ \E i \in 1..Len(Served(Len(respLog))) :
                  Served(Len(respLog))[i] = pubLog[j].data

C15_Witness ==
    /\ cycle = 2
    /\ pc = "request"
    /\ reqLog = << >>
    /\ collected_data = << >>
    /\ Len(all_data) = 3
    /\ all_data[1].cycle = 1

\* the fetch call of the current iteration has returned
FetchReturned ==
    /\ respLog # << >>
    /\ Len(reqLog) = Len(respLog)
    /\ respLog[Len(respLog)].kind \in {"empty", "error"}

\* C16: in a trading-day iteration the phases follow one another: a message
\* is published only once the fetch has issued its last request and
\* returned (so no page request falls between two publishes), and the one
\* sleep of the configured interval begins only when the fetch has returned
\* and every item of the result has been published and its call has
\* returned (at once after the fetch when the result is empty); nothing is
\* slept after it.
C16_FetchThenPublishThenSleep ==
    cycleKind = "trading"
    => /\ pubLog # << >> => FetchReturned
       /\ IntervalSleeps # << >>
          => /\ Len(IntervalSleeps) = 1
             /\ sleeps[Len(sleeps)] = Interval
             /\ FetchReturned
             /\ Len(pubLog) = Len(all_data)
             /\ idx = Len(all_data) + 1

C16_Witness ==
    /\ cycleKind = "trading"
    /\ pc = "sleeping"
    /\ Len(reqLog) = 3
    /\ Len(pubLog) = 3
    /\ sleeps = << PageDelay, PageDelay, Interval >>

\* a comes before b in a fetch result: a lower page, or the same page and an
\* earlier position
Precedes(a, b) == a.page < b.page \/ (a.page = b.page /\ a.pos < b.pos)

\* C17: records go to the broker in the order of the fetch result, one at a
\* time: the j-th message carries the j-th record, so a record that precedes
\* another is handed over first, and when a message is handed over every
\* earlier send_to_kafka call has returned.
C17_PublishInResultOrder ==
    (cycleKind = "trading" /\ pubLog # << >>)
    => /\ \A j \in 1..Len(pubLog) : pubLog[j].data = all_data[j]
       /\ \A i, j \in 1..Len(pubLog) :
              Precedes(pubLog[i].data, pubLog[j].data) <=> i < j
       /\ pc = "confirm" => idx = Len(pubLog)
       /\ pc = "publish" => idx = Len(pubLog) + 1

C17_Witness ==
    /\ pc = "confirm"
    /\ idx = 3
    /\ Len(pubLog) = 3
    /\ pubLog[1].data.page = 1
    /\ pubLog[2].data.page = 1
    /\ pubLog[3].data.page = 2

\* every page served so far in the current fetch was non-empty
OnlyItemsSoFar == \A i \in 1..Len(respLog) : respLog[i].kind = "items"

\* C18: the fetch stops on an empty page or a failed request and on nothing
\* else.  For as long as the source has served only non-empty pages the call
\* has not returned (the thread is in the fetch, about to request the next
\* page, unless the loop was left) and the iteration has published nothing
\* and has not begun its sleep, however many pages that is; and once the
\* source serves an empty page or fails, which a source with finitely many
\* non-empty pages does, the call returns.
C18_FetchStopsOnlyOnEmptyOrError ==
    /\ []((cycleKind = "trading" /\ OnlyItemsSoFar)
          => /\ pc \in {"fetch", "request", "response",
                        "finally", "close", "exit"}
             /\ pc = "request" => page_no = Len(respLog) + 1
             /\ pubLog = << >>
             /\ IntervalSleeps = << >>)
    /\ (pc \in {"request", "response"}
          ~> (FetchReturned \/ exitCause # "none"))

C18_Witness ==
    /\ pc = "response"
    /\ Len(reqLog) = 3
    /\ Len(respLog) = 2
    /\ OnlyItemsSoFar
    /\ page_no = 3
    /\ exitCause = "none"

\* close has been invoked on the producer
Closed == \E i \in 1..Len(teardown) : teardown[i] = "close"

\* C19: flush and close are invoked only on a connection that was created
\* (never after a start that ended at the credential check or at a failed
\* connection), and close is the end: once it has been invoked the thread has
\* left main, and no page request, publish call or sleep is made after it.
C19_TeardownNeedsConnectionAndIsFinal ==
    /\ [](teardown # << >> => (producer = "KafkaProducer" /\ "connect" \in ever))
    /\ []((pc = "exit" /\ exitCause = "none") => teardown = << >>)
    /\ [](Closed => pc = "exit")
    /\ [][Closed => (reqLog' = reqLog /\ pubLog' = pubLog /\ sleeps' = sleeps)]_vars

C19_Witness ==
    /\ pc = "exit"
    /\ teardown = <<"flush", "close">>
    /\ Len(reqLog) = 2
    /\ Len(pubLog) = 1
    /\ exitAt = "sleeping"
=============================================================================
